---- MODULE Spec2Model ----
(***************************************************************************)
(* State-machine model of the KMZ flood scripts:                           *)
(*   plot_kmz_flood.py        main / extract_kml / read_polygons /         *)
(*                            plot_extruded_3d                             *)
(*   read_kmz_geopandas.py    main / extract_kml_from_kmz /                *)
(*                            read_kml_to_gdf / export_geojson             *)
(*   read_kml_with_pyogrio.py main / extract_kml                           *)
(* One run of one entry point per behaviour.  Lengths are in tenths of a   *)
(* metre (depths) and in thousandths (z heights), so that the 0.05 scale   *)
(* factor and the 0.5 midpoint stay exact in integer arithmetic.           *)
(***************************************************************************)
EXTENDS Integers, Sequences, FiniteSets, TLC

VARIABLES entry, pc, exists, workspace, tree, kml, attempts,
          parsed, gdf, error, out, depth_column, depths, depth_source,
          normalized, idx, meshes, figure, exported

vars == <<entry, pc, exists, workspace, tree, kml, attempts,
          parsed, gdf, error, out, depth_column, depths, depth_source,
          normalized, idx, meshes, figure, exported>>

\* ------------------------------------------------------------------ bounds
\* deepest directory nesting of an archive member (1 = top level only)
MaxNest == 2
\* most records a driver returns in a script run
MaxParsedRows == 2
\* most records handed to plot_extruded_3d when it is called directly
MaxRows == 3
\* most attribute columns of a collection handed to plot_extruded_3d
MaxCols == 2

\* ------------------------------------------------------------- file names
\* A file name is a sequence of characters; str.lower() is modelled
\* character by character.
Lower(c) ==
    CASE c = "D" -> "d"
      [] c = "K" -> "k"
      [] c = "M" -> "m"
      [] c = "L" -> "l"
      [] OTHER -> c

LowerName(name) == [i \in 1..Len(name) |-> Lower(name[i])]

EndsWith(name, suffix) ==
    /\ Len(name) >= Len(suffix)
    /\ \A i \in 1..Len(suffix) :
          name[Len(name) - Len(suffix) + i] = suffix[i]

KmlSuffix == <<".", "k", "m", "l">>

\* f.lower().endswith(".kml")
IsKmlName(name) == EndsWith(LowerName(name), KmlSuffix)

FileNames == { <<"D", ".", "k", "M", "l">>, <<"a", ".", "t">> }

DirNames == { <<"s">>, <<"s", ".", "k", "m", "l">> }

\* ------------------------------------------------------------ archive tree
\* A member is [path |-> sequence of names, isdir |-> BOOLEAN]; a tree is a
\* set of members in which every member's parent directory is a member.
\* The archives enumerated hold at most one file and one sub-directory per
\* directory, nested at most MaxNest deep.
RECURSIVE TreesUnder(_, _)
TreesUnder(dir, n) ==
    LET files == { {} } \cup { { [path |-> Append(dir, f), isdir |-> FALSE] } :
                                f \in FileNames }
        subs  == IF n <= 1 THEN { {} }
                 ELSE { {} } \cup
                      UNION { { { [path |-> Append(dir, d), isdir |-> TRUE] } \cup t :
                                  t \in TreesUnder(Append(dir, d), n - 1) } :
                              d \in DirNames }
    IN  { f \cup t : f \in files, t \in subs }

Trees == TreesUnder(<<>>, MaxNest)

Parent(p) == SubSeq(p, 1, Len(p) - 1)

BaseName(p) == p[Len(p)]

\* entries directly inside directory dir
Entries(t, dir) == { m \in t : Len(m.path) = Len(dir) + 1 /\ Parent(m.path) = dir }

NoPath == <<>>

\* plot_kmz_flood.extract_kml: os.listdir(td) lists the top level only, files
\* and directories alike, in arbitrary order; the first match is returned.
ListdirMatches(t) ==
    { m.path : m \in { e \in Entries(t, <<>>) : IsKmlName(BaseName(e.path)) } }

\* os.walk(td): top-down; in each directory the files are tested first, then
\* the sub-directories are walked.  Sibling order is arbitrary, so the
\* result is the set of paths some walk order returns first.
RECURSIVE WalkMatches(_, _)
WalkMatches(t, dir) ==
    LET here == { e \in Entries(t, dir) : ~e.isdir /\ IsKmlName(BaseName(e.path)) }
        subs == { e \in Entries(t, dir) : e.isdir }
    IN  IF here # {} THEN { e.path : e \in here }
        ELSE UNION { WalkMatches(t, s.path) : s \in subs }

\* --------------------------------------------------------------- geometry
\* A geometry is [type, parts, valid]: parts is the sequence of coordinate
\* sequences (the exterior ring of each polygon part; shapely hands a ring
\* out with its first coordinate repeated at the end), valid is GEOS's
\* is_valid verdict.  A coordinate is a pair <<x, y>>.
TriRing == << <<0, 0>>, <<4, 0>>, <<0, 4>>, <<0, 0>> >>

QuadRing == << <<8, 0>>, <<12, 0>>, <<12, 4>>, <<8, 4>>, <<8, 0>> >>

\* self-intersecting: the edges (0,0)-(4,4) and (4,0)-(0,4) cross at (2,2)
BowtieRing == << <<0, 0>>, <<4, 4>>, <<4, 0>>, <<0, 4>>, <<0, 0>> >>

NullGeom == [type |-> "None", parts |-> << >>, valid |-> FALSE]

PointGeom == [type |-> "Point", parts |-> << << <<4, 4>> >> >>, valid |-> TRUE]

TriGeom == [type |-> "Polygon", parts |-> << TriRing >>, valid |-> TRUE]

BowtieGeom == [type |-> "Polygon", parts |-> << BowtieRing >>, valid |-> FALSE]

MultiGeom == [type |-> "MultiPolygon", parts |-> << TriRing, QuadRing >>, valid |-> TRUE]

\* geometry.buffer(0): a valid polygon comes back unchanged; of the
\* self-intersecting ring a, b, c, d, a (a-b crosses c-d half-way) the lobe
\* a, crossing, d, a comes back, a valid polygon
Buffer0(g) ==
    IF g.valid THEN g
    ELSE LET r == g.parts[1]
             x == << (r[1][1] + r[2][1]) \div 2, (r[1][2] + r[2][2]) \div 2 >>
         IN  [type |-> "Polygon", parts |-> << << r[1], x, r[4], r[1] >> >>,
              valid |-> TRUE]

\* ------------------------------------------------------------ collections
\* A collection (GeoDataFrame) is [crs, cols, rows]; a row is [geometry, d].
\* Column c of row i holds rows[i].d + ColOffset(c), so two columns of one
\* collection never hold the same values.
NoCrs == "None"

Wgs84 == "EPSG:4326"

WebMercator == "EPSG:3857"

FallbackColumns == << "depth", "DEPTH", "water_depth", "Depth", "flood_depth" >>

ColumnNames == { FallbackColumns[i] : i \in 1..Len(FallbackColumns) } \cup { "level" }

ColOffset(c) ==
    CASE c = "depth" -> 0
      [] c = "DEPTH" -> 1
      [] c = "water_depth" -> 2
      [] c = "Depth" -> 3
      [] c = "flood_depth" -> 4
      [] OTHER -> 6

\* gdf[col].values
ColumnValues(t, c) == [i \in 1..Len(t.rows) |-> t.rows[i].d + ColOffset(c)]

\* gdf[mask]: the rows whose mask entry is TRUE, in order
RECURSIVE Select(_, _)
Select(rows, mask) ==
    IF rows = << >> THEN << >>
    ELSE IF Head(mask) THEN << Head(rows) >> \o Select(Tail(rows), Tail(mask))
         ELSE Select(Tail(rows), Tail(mask))

\* gdf.geometry.notnull()
NotNull(rows) == [i \in 1..Len(rows) |-> rows[i].geometry.type # "None"]

\* gdf.geometry.geom_type.isin(["Polygon", "MultiPolygon"])
IsPolygonal(rows) ==
    [i \in 1..Len(rows) |-> rows[i].geometry.type \in { "Polygon", "MultiPolygon" }]

\* gdf.geometry.is_valid
IsValid(rows) == [i \in 1..Len(rows) |-> rows[i].geometry.valid]

\* pyproj's transform of one coordinate from crs `from` to EPSG:4326: the
\* identity from EPSG:4326 itself, a change of every coordinate otherwise
\* (metres to degrees, here a halving)
Reproject(from, c) ==
    IF from = Wgs84 THEN c ELSE << c[1] \div 2, c[2] \div 2 >>

ReprojectGeom(from, g) ==
    [g EXCEPT !.parts =
        [k \in 1..Len(g.parts) |->
            [i \in 1..Len(g.parts[k]) |-> Reproject(from, g.parts[k][i])]]]

\* gdf.to_crs(epsg=4326)
ToCrs4326(t) ==
    [t EXCEPT !.crs = Wgs84,
              !.rows = [i \in 1..Len(t.rows) |->
                          [t.rows[i] EXCEPT !.geometry = ReprojectGeom(t.crs, @)]]]

\* gdf.set_crs(epsg=4326, inplace=True): labels the collection only
SetCrs4326(t) == [t EXCEPT !.crs = Wgs84]

\* plot_kmz_flood.read_polygons, after the read
ReadPolygonsTail(t) ==
    LET a == [t EXCEPT !.rows = Select(t.rows, NotNull(t.rows))]
        b == [a EXCEPT !.rows = Select(a.rows, IsPolygonal(a.rows))]
    IN  IF b.crs = NoCrs THEN SetCrs4326(b) ELSE b

\* read_kmz_geopandas.read_kml_to_gdf, after the read
ReadKmlToGdfTail(t) ==
    LET a == [t EXCEPT !.rows = Select(t.rows, NotNull(t.rows))]
        b == [a EXCEPT !.rows = Select(a.rows, IsPolygonal(a.rows))]
        c == IF b.crs = NoCrs THEN SetCrs4326(b) ELSE ToCrs4326(b)
        d == [c EXCEPT !.rows = [i \in 1..Len(c.rows) |->
                                   [c.rows[i] EXCEPT !.geometry = Buffer0(@)]]]
    IN  [d EXCEPT !.rows = Select(d.rows, IsValid(d.rows))]

\* read_kml_with_pyogrio.main: GeoDataFrame(df, geometry="geometry", crs="EPSG:4326")
PyogrioFrame(t) == [t EXCEPT !.crs = Wgs84]

\* sequences over S of length at most n
SeqsUpTo(S, n) == UNION { [1..k -> S] : k \in 0..n }

\* what a driver can hand back in a script run
ParsedGeoms == { NullGeom, PointGeom, TriGeom, BowtieGeom }

ParsedRows == { [geometry |-> g, d |-> 10] : g \in ParsedGeoms }

ParsedTables ==
    { [crs |-> c, cols |-> k, rows |-> r] :
        c \in { NoCrs, Wgs84, WebMercator },
        k \in { {}, { "depth" } },
        r \in SeqsUpTo(ParsedRows, MaxParsedRows) }

\* what a caller can hand to plot_extruded_3d directly
PlotRows == { [geometry |-> TriGeom, d |-> 10], [geometry |-> MultiGeom, d |-> 20] }

PlotTables ==
    { [crs |-> Wgs84, cols |-> k, rows |-> r] :
        k \in { s \in SUBSET ColumnNames : Cardinality(s) <= MaxCols },
        r \in SeqsUpTo(PlotRows, MaxRows) }

NoTable == [crs |-> NoCrs, cols |-> {}, rows |-> << >>]

\* ------------------------------------------------------- plot_extruded_3d
BaseZ == 0

\* np.random.uniform(0.5, 3.0, n), in tenths of a metre
RandomLow == 5

RandomHigh == 30

RandomDraws == { RandomLow, (RandomLow + RandomHigh) \div 2, RandomHigh }

NoColumn == ""

\* a printed line is [text, arg]
Msg(text, arg) == [text |-> text, arg |-> arg]

WarnEmpty == Msg("Warning: GeoDataFrame is empty", NoColumn)

MsgRandom == Msg("No depth column found - using random depths", NoColumn)

MsgUsing(col) == Msg("Using depth column", col)

MsgRange == Msg("Depth range", NoColumn)

MsgLoaded == Msg("Loaded flood polygons from KMZ", NoColumn)

MsgHead == Msg("gdf.head()", NoColumn)

MsgWrote == Msg("Wrote GeoJSON", NoColumn)

\* index of the first fallback name that is a column, 0 when there is none
FirstFallback(cols) ==
    IF \E i \in 1..Len(FallbackColumns) : FallbackColumns[i] \in cols
    THEN CHOOSE i \in 1..Len(FallbackColumns) :
            /\ FallbackColumns[i] \in cols
            /\ \A j \in 1..(i - 1) : FallbackColumns[j] \notin cols
    ELSE 0

\* the fallback names tried before the caller's column
DepthSourceFallbackFirst(t, col) ==
    IF FirstFallback(t.cols) # 0
    THEN [kind |-> "fallback", col |-> FallbackColumns[FirstFallback(t.cols)]]
    ELSE IF col # NoColumn /\ col \in t.cols
         THEN [kind |-> "argument", col |-> col]
         ELSE [kind |-> "random", col |-> NoColumn]

\* which source the depth values come from: [kind, col]
DepthSource(t, col) ==
    IF col # NoColumn /\ col \in t.cols
    THEN [kind |-> "argument", col |-> col]
    ELSE IF FirstFallback(t.cols) # 0
         THEN [kind |-> "fallback", col |-> FallbackColumns[FirstFallback(t.cols)]]
         ELSE [kind |-> "random", col |-> NoColumn]

MinOf(ds) == CHOOSE m \in { ds[i] : i \in 1..Len(ds) } : \A i \in 1..Len(ds) : m <= ds[i]

MaxOf(ds) == CHOOSE m \in { ds[i] : i \in 1..Len(ds) } : \A i \in 1..Len(ds) : m >= ds[i]

\* a normalized depth is the fraction num / den; 0.5 is 1 / 2
Half == [num |-> 1, den |-> 2]

\* the division without the max > min test
NormalizeDepthsUnguarded(ds) ==
    LET lo == MinOf(ds)
        hi == MaxOf(ds)
    IN  [i \in 1..Len(ds) |-> [num |-> ds[i] - lo, den |-> hi - lo]]

NormalizeDepths(ds) ==
    LET lo == MinOf(ds)
        hi == MaxOf(ds)
    IN  IF hi > lo
        THEN [i \in 1..Len(ds) |-> [num |-> ds[i] - lo, den |-> hi - lo]]
        ELSE [i \in 1..Len(ds) |-> Half]

\* the unused extrude_h = 0.15 taken for the height
ExtrudeHeightFixed(depth) == 150

\* depth * 0.05: tenths of a metre in, thousandths out
ExtrudeHeight(depth) == depth * 5

TopFace(coords, h) ==
    [i \in 1..Len(coords) |-> << coords[i][1], coords[i][2], BaseZ + h >>]

BottomFace(coords) ==
    [i \in 1..Len(coords) |-> << coords[i][1], coords[i][2], BaseZ >>]

\* a loop that stops one pair early
SideQuadsOpen(coords, h) ==
    [i \in 1..(Len(coords) - 2) |->
        << << coords[i][1], coords[i][2], BaseZ >>,
           << coords[i + 1][1], coords[i + 1][2], BaseZ >>,
           << coords[i + 1][1], coords[i + 1][2], BaseZ + h >>,
           << coords[i][1], coords[i][2], BaseZ + h >> >>]

SideQuads(coords, h) ==
    [i \in 1..(Len(coords) - 1) |->
        << << coords[i][1], coords[i][2], BaseZ >>,
           << coords[i + 1][1], coords[i + 1][2], BaseZ >>,
           << coords[i + 1][1], coords[i + 1][2], BaseZ + h >>,
           << coords[i][1], coords[i][2], BaseZ + h >> >>]

\* the three collections added to the axes for one ring
RingMeshes(owner, part, coords, depth) ==
    LET h == ExtrudeHeight(depth)
    IN  << [kind |-> "top", owner |-> owner, part |-> part,
            faces |-> << TopFace(coords, h) >>],
           [kind |-> "bottom", owner |-> owner, part |-> part,
            faces |-> << BottomFace(coords) >>],
           [kind |-> "sides", owner |-> owner, part |-> part,
            faces |-> SideQuads(coords, h)] >>

\* all the collections added for one feature, part after part
FeatureMeshes(owner, geom, depth) ==
    [j \in 1..(3 * Len(geom.parts)) |->
        RingMeshes(owner, ((j - 1) \div 3) + 1,
                   geom.parts[((j - 1) \div 3) + 1], depth)[((j - 1) % 3) + 1]]

DepthColumnArgs == { NoColumn, "level", "Depth" }

NoFigure == [created |-> FALSE, saved |-> FALSE, shown |-> FALSE, closed |-> FALSE]

\* ------------------------------------------------------------------ state
Scripts == { "plot_kmz_flood", "read_kmz_geopandas", "read_kml_with_pyogrio" }

NoError == "none"

Init ==
    /\ entry \in Scripts \cup { "plot_extruded_3d" }
    /\ IF entry \in Scripts
       THEN /\ pc = "main"
            /\ exists \in BOOLEAN
            /\ gdf = NoTable
            /\ depth_column = NoColumn
       ELSE /\ pc = "plot"
            /\ exists = TRUE
            /\ gdf \in PlotTables
            /\ depth_column \in DepthColumnArgs
    /\ workspace = "absent"
    /\ tree = {}
    /\ kml = NoPath
    /\ attempts = << >>
    /\ parsed = NoTable
    /\ error = NoError
    /\ out = << >>
    /\ depths = << >>
    /\ depth_source = [kind |-> "unresolved", col |-> NoColumn]
    /\ normalized = << >>
    /\ idx = 0
    /\ meshes = << >>
    /\ figure = NoFigure
    /\ exported = FALSE

\* ---------------------------------------------------------- script steps
\* plot_kmz_flood.main and read_kml_with_pyogrio.main: the os.path.exists
\* test before the with statement
KmzExistsCheck ==
    /\ pc = "main"
    /\ entry \in { "plot_kmz_flood", "read_kml_with_pyogrio" }
    /\ IF exists
       THEN /\ pc' = "with"
            /\ error' = error
       ELSE /\ pc' = "aborted"
            /\ error' = "FileNotFoundError"
    /\ UNCHANGED <<entry, exists, workspace, tree, kml, attempts,
                   parsed, gdf, out, depth_column, depths, depth_source,
                   normalized, idx, meshes, figure, exported>>

\* with tempfile.TemporaryDirectory() as td:
EnterWith ==
    /\ \/ pc = "with"
       \/ pc = "main" /\ entry = "read_kmz_geopandas"
    /\ workspace' = "present"
    /\ pc' = "extract"
    /\ UNCHANGED <<entry, exists, tree, kml, attempts,
                   parsed, gdf, error, out, depth_column, depths, depth_source,
                   normalized, idx, meshes, figure, exported>>

\* the search loop of an extract function over the matches it can meet first
FoundOrRaise(matches) ==
    IF matches = {}
    THEN /\ kml' = NoPath
         /\ error' = "FileNotFoundError"
         /\ pc' = "raising"
    ELSE /\ kml' \in matches
         /\ error' = error
         /\ pc' = "read"

\* plot_kmz_flood.extract_kml; extractall puts the archive's members into
\* the workspace
ExtractKmlListdir ==
    /\ pc = "extract"
    /\ entry = "plot_kmz_flood"
    /\ tree' \in Trees
    /\ FoundOrRaise(ListdirMatches(tree'))
    /\ UNCHANGED <<entry, exists, workspace, attempts,
                   parsed, gdf, out, depth_column, depths, depth_source,
                   normalized, idx, meshes, figure, exported>>

\* read_kml_with_pyogrio.extract_kml
ExtractKmlWalk ==
    /\ pc = "extract"
    /\ entry = "read_kml_with_pyogrio"
    /\ tree' \in Trees
    /\ FoundOrRaise(WalkMatches(tree', << >>))
    /\ UNCHANGED <<entry, exists, workspace, attempts,
                   parsed, gdf, out, depth_column, depths, depth_source,
                   normalized, idx, meshes, figure, exported>>

\* read_kmz_geopandas.extract_kml_from_kmz
ExtractKmlFromKmz ==
    /\ pc = "extract"
    /\ entry = "read_kmz_geopandas"
    /\ IF ~exists
       THEN /\ tree' = tree
            /\ kml' = NoPath
            /\ error' = "FileNotFoundError"
            /\ pc' = "raising"
       ELSE /\ tree' \in Trees
            /\ FoundOrRaise(WalkMatches(tree', << >>))
    /\ UNCHANGED <<entry, exists, workspace, attempts,
                   parsed, gdf, out, depth_column, depths, depth_source,
                   normalized, idx, meshes, figure, exported>>

\* the tables a read of the markup file can return in this script
Readable ==
    IF entry = "read_kml_with_pyogrio"
    THEN { t \in ParsedTables : t.crs = Wgs84 }
    ELSE ParsedTables

\* a driver can open the path when it names a file, or a directory that
\* holds markup files (LIBKML reads a directory of them); the content then
\* decides whether the read succeeds
Openable ==
    \/ [path |-> kml, isdir |-> FALSE] \in tree
    \/ /\ [path |-> kml, isdir |-> TRUE] \in tree
       /\ \E e \in Entries(tree, kml) : ~e.isdir /\ IsKmlName(BaseName(e.path))

SecondaryDriver ==
    IF entry = "plot_kmz_flood" THEN "default" ELSE "KML"

\* one entry of the log of read attempts
Attempt(driver, ok, result) == [driver |-> driver, ok |-> ok, result |-> result]

\* a primary read whose success does not stop the second read
ReadPrimaryAlwaysFallback ==
    /\ pc = "read"
    /\ \/ /\ Openable
          /\ parsed' \in Readable
          /\ attempts' = Append(attempts, Attempt("LIBKML", TRUE, parsed'))
       \/ /\ parsed' = parsed
          /\ attempts' = Append(attempts, Attempt("LIBKML", FALSE, NoTable))
    /\ pc' = "fallback"
    /\ UNCHANGED <<entry, exists, workspace, tree, kml,
                   gdf, error, out, depth_column, depths, depth_source,
                   normalized, idx, meshes, figure, exported>>

\* try: read with driver="LIBKML"
ReadPrimary ==
    /\ pc = "read"
    /\ \/ /\ Openable
          /\ parsed' \in Readable
          /\ attempts' = Append(attempts, Attempt("LIBKML", TRUE, parsed'))
          /\ pc' = "parsed"
       \/ /\ parsed' = parsed
          /\ attempts' = Append(attempts, Attempt("LIBKML", FALSE, NoTable))
          /\ pc' = "fallback"
    /\ UNCHANGED <<entry, exists, workspace, tree, kml,
                   gdf, error, out, depth_column, depths, depth_source,
                   normalized, idx, meshes, figure, exported>>

\* except Exception: read again with the second driver
ReadSecondary ==
    /\ pc = "fallback"
    /\ \/ /\ Openable
          /\ parsed' \in Readable
          /\ attempts' = Append(attempts, Attempt(SecondaryDriver, TRUE, parsed'))
          /\ pc' = "parsed"
          /\ error' = error
       \/ /\ parsed' = parsed
          /\ attempts' = Append(attempts, Attempt(SecondaryDriver, FALSE, NoTable))
          /\ pc' = "raising"
          /\ error' = "DriverError"
    /\ UNCHANGED <<entry, exists, workspace, tree, kml,
                   gdf, out, depth_column, depths, depth_source,
                   normalized, idx, meshes, figure, exported>>

\* the rest of the loader after the read, up to its return
LoaderReturn ==
    /\ pc = "parsed"
    /\ gdf' = CASE entry = "plot_kmz_flood" -> ReadPolygonsTail(parsed)
                [] entry = "read_kmz_geopandas" -> ReadKmlToGdfTail(parsed)
                [] OTHER -> PyogrioFrame(parsed)
    /\ out' = IF entry = "read_kml_with_pyogrio" THEN Append(out, MsgHead) ELSE out
    /\ pc' = "exit_with"
    /\ UNCHANGED <<entry, exists, workspace, tree, kml, attempts,
                   parsed, error, depth_column, depths, depth_source,
                   normalized, idx, meshes, figure, exported>>

\* TemporaryDirectory.__exit__ at the end of the with block
ExitWith ==
    /\ pc = "exit_with"
    /\ workspace' = "removed"
    /\ tree' = {}
    /\ pc' = IF entry = "read_kml_with_pyogrio" THEN "done" ELSE "after_with"
    /\ UNCHANGED <<entry, exists, kml, attempts,
                   parsed, gdf, error, out, depth_column, depths, depth_source,
                   normalized, idx, meshes, figure, exported>>

\* an exception that leaves the with block without the clean-up
ExitWithRaisingNoCleanup ==
    /\ pc = "raising"
    /\ pc' = "aborted"
    /\ UNCHANGED <<entry, exists, workspace, tree, kml, attempts,
                   parsed, gdf, error, out, depth_column, depths, depth_source,
                   normalized, idx, meshes, figure, exported>>

\* TemporaryDirectory.__exit__ while an exception leaves the with block
ExitWithRaising ==
    /\ pc = "raising"
    /\ workspace' = "removed"
    /\ tree' = {}
    /\ pc' = "aborted"
    /\ UNCHANGED <<entry, exists, kml, attempts,
                   parsed, gdf, error, out, depth_column, depths, depth_source,
                   normalized, idx, meshes, figure, exported>>

\* read_kmz_geopandas.export_geojson
ExportGeojson ==
    /\ pc = "after_with"
    /\ entry = "read_kmz_geopandas"
    /\ exported' = TRUE
    /\ out' = Append(out, MsgWrote)
    /\ pc' = "done"
    /\ UNCHANGED <<entry, exists, workspace, tree, kml, attempts,
                   parsed, gdf, error, depth_column, depths, depth_source,
                   normalized, idx, meshes, figure>>

\* plot_kmz_flood.main: print the count, call plot_extruded_3d
CallPlot ==
    /\ pc = "after_with"
    /\ entry = "plot_kmz_flood"
    /\ out' = Append(out, MsgLoaded)
    /\ pc' = "plot"
    /\ UNCHANGED <<entry, exists, workspace, tree, kml, attempts,
                   parsed, gdf, error, depth_column, depths, depth_source,
                   normalized, idx, meshes, figure, exported>>

\* ------------------------------------------------- plot_extruded_3d steps
\* figure set-up, the empty warning, and the choice of the depth values
PlotResolveDepths ==
    /\ pc = "plot"
    /\ figure' = [figure EXCEPT !.created = TRUE]
    /\ LET warn == IF Len(gdf.rows) = 0 THEN << WarnEmpty >> ELSE << >>
           src  == DepthSource(gdf, depth_column)
       IN  /\ depth_source' = src
           /\ CASE src.kind = "argument" ->
                     /\ depths' = ColumnValues(gdf, src.col)
                     /\ out' = out \o warn
                [] src.kind = "fallback" ->
                     /\ depths' = ColumnValues(gdf, src.col)
                     /\ out' = (out \o warn) \o << MsgUsing(src.col) >>
                [] OTHER ->
                     /\ depths' \in [1..Len(gdf.rows) -> RandomDraws]
                     /\ out' = (out \o warn) \o << MsgRandom >>
    /\ pc' = "normalize"
    /\ UNCHANGED <<entry, exists, workspace, tree, kml, attempts,
                   parsed, gdf, error, depth_column,
                   normalized, idx, meshes, exported>>

\* np.min / np.max raise ValueError on a zero-size array
PlotNormalize ==
    /\ pc = "normalize"
    /\ IF Len(depths) = 0
       THEN /\ error' = "ValueError"
            /\ pc' = "aborted"
            /\ UNCHANGED <<normalized, out, idx>>
       ELSE /\ normalized' = NormalizeDepths(depths)
            /\ out' = Append(out, MsgRange)
            /\ idx' = 1
            /\ pc' = "features"
            /\ error' = error
    /\ UNCHANGED <<entry, exists, workspace, tree, kml, attempts,
                   parsed, gdf, depth_column, depths, depth_source,
                   meshes, figure, exported>>

\* one pass of the loop over gdf.geometry
PlotFeature ==
    /\ pc = "features"
    /\ idx <= Len(gdf.rows)
    /\ meshes' = meshes \o FeatureMeshes(idx, gdf.rows[idx].geometry, depths[idx])
    /\ idx' = idx + 1
    /\ UNCHANGED <<entry, pc, exists, workspace, tree, kml, attempts,
                   parsed, gdf, error, out, depth_column, depths, depth_source,
                   normalized, figure, exported>>

\* axis styling, then save (outpath given) and show or close
PlotFinish ==
    /\ pc = "features"
    /\ idx > Len(gdf.rows)
    /\ \E outpath \in BOOLEAN, show \in BOOLEAN :
          figure' = [created |-> TRUE, saved |-> outpath, shown |-> show, closed |-> ~show]
    /\ pc' = "done"
    /\ UNCHANGED <<entry, exists, workspace, tree, kml, attempts,
                   parsed, gdf, error, out, depth_column, depths, depth_source,
                   normalized, idx, meshes, exported>>

Next ==
    \/ KmzExistsCheck
    \/ EnterWith
    \/ ExtractKmlListdir
    \/ ExtractKmlWalk
    \/ ExtractKmlFromKmz
    \/ ReadPrimary
    \/ ReadSecondary
    \/ LoaderReturn
    \/ ExitWith
    \/ ExitWithRaising
    \/ ExportGeojson
    \/ CallPlot
    \/ PlotResolveDepths
    \/ PlotNormalize
    \/ PlotFeature
    \/ PlotFinish

Spec == Init /\ [][Next]_vars

Terminal == pc \in { "done", "aborted" }

\* ------------------------------------------------------------------ claims
InOut(m) == \E i \in 1..Len(out) : out[i] = m

\* plot_extruded_3d has chosen its depth values
Resolved == depth_source.kind # "unresolved"

\* the loader function of the script has returned its collection
Loaded ==
    /\ entry \in Scripts
    /\ \/ pc \in { "exit_with", "after_with", "plot", "normalize", "features", "done" }
       \/ error = "ValueError"

\* C1: when plot_extruded_3d is given an empty collection without a depth
\* column it does not raise: it prints the empty warning, adds no mesh, and
\* ends normally with the figure saved, shown or closed.
C1_EmptyCollectionPlots ==
    (Resolved /\ Len(gdf.rows) = 0 /\ depth_source.kind = "random" /\ Terminal) =>
        /\ pc = "done"
        /\ error = NoError
        /\ InOut(WarnEmpty)
        /\ meshes = << >>
        /\ (figure.saved \/ figure.shown \/ figure.closed)

\* C2: in a script run the workspace does not exist before the with block,
\* exists throughout extraction and parsing, and is removed in every
\* terminal state that follows its creation (success, no markup file, both
\* drivers failed); export and rendering run only once it is removed.
C2_WorkspaceScoped ==
    entry \in Scripts =>
        /\ pc \in { "main", "with" } =>
              workspace = "absent" /\ tree = {} /\ kml = NoPath /\ attempts = << >>
        /\ pc \in { "extract", "read", "fallback", "parsed", "exit_with", "raising" } =>
              workspace = "present"
        /\ tree # {} => workspace = "present"
        /\ Terminal => workspace # "present"
        /\ (Terminal /\ (exists \/ entry = "read_kmz_geopandas")) => workspace = "removed"
        /\ (pc \in { "after_with", "plot", "normalize", "features" }
              \/ exported \/ figure.created \/ Resolved) => workspace = "removed"

C2_Witness ==
    /\ entry \in Scripts
    /\ pc = "aborted"
    /\ error = "DriverError"
    /\ workspace = "removed"

\* C3: LIBKML is tried first; the second driver is tried only after the
\* first failed and only once; a successful first read is the one used;
\* when both fail the error aborts the run and no collection is produced.
C3_TwoDriverFallback ==
    /\ Len(attempts) <= 2
    /\ Len(attempts) >= 1 => attempts[1].driver = "LIBKML"
    /\ Len(attempts) = 2 =>
          /\ ~attempts[1].ok
          /\ attempts[2].driver = (IF entry = "plot_kmz_flood" THEN "default" ELSE "KML")
    /\ (Len(attempts) >= 1 /\ attempts[1].ok) =>
          /\ parsed = attempts[1].result
          /\ pc \notin { "fallback", "raising" }
          /\ error # "DriverError"
    /\ (Len(attempts) = 2 /\ attempts[2].ok) => parsed = attempts[2].result
    /\ (Len(attempts) = 2 /\ ~attempts[2].ok) =>
          /\ error = "DriverError"
          /\ pc \in { "raising", "aborted" }
          /\ parsed = NoTable
          /\ gdf = NoTable
          /\ ~exported
          /\ ~Resolved
    /\ error = "DriverError" => Len(attempts) = 2 /\ ~attempts[2].ok
    /\ Loaded => \E i \in 1..Len(attempts) : attempts[i].ok

C3_Witness ==
    /\ pc = "aborted"
    /\ Len(attempts) = 2
    /\ ~attempts[1].ok
    /\ ~attempts[2].ok
    /\ error = "DriverError"

KmlFiles(t) == { m.path : m \in { e \in t : ~e.isdir /\ IsKmlName(BaseName(e.path)) } }

\* C4: in every script the extract step returns the path of a file of the
\* extracted tree whose lower-cased name ends in ".kml" whenever the tree
\* holds one at any depth, and raises the no-markup error only when the
\* tree holds none.
C4_RecursiveSearch ==
    (entry \in Scripts /\ workspace = "present") =>
        /\ pc \in { "read", "fallback", "parsed", "exit_with" } => kml \in KmlFiles(tree)
        /\ (pc = "raising" /\ error = "FileNotFoundError" /\ exists) => KmlFiles(tree) = {}

LoaderScripts == { "plot_kmz_flood", "read_kmz_geopandas" }

\* the parsed records that are polygons or multi-polygons, in order
PolygonalParsed == Select(parsed.rows, IsPolygonal(parsed.rows))

\* C5: the collection a loader returns is in EPSG:4326: parsed data without
\* a CRS keeps its coordinates, parsed data in another CRS is reprojected.
C5_CrsIsWgs84 ==
    (Loaded /\ entry \in LoaderScripts) =>
        /\ gdf.crs = "EPSG:4326"
        /\ Len(gdf.rows) = Len(PolygonalParsed)
        /\ \A i \in 1..Len(gdf.rows) :
              PolygonalParsed[i].geometry.valid =>
                 gdf.rows[i].geometry.parts =
                    IF parsed.crs \in { "None", "EPSG:4326" }
                    THEN PolygonalParsed[i].geometry.parts
                    ELSE ReprojectGeom(parsed.crs, PolygonalParsed[i].geometry).parts

\* C6: every record a loader returns has a non-null, valid Polygon or
\* MultiPolygon geometry; null and other types are discarded, the rest is
\* repaired with buffer(0); an input whose records are all discarded gives
\* an empty collection and no error.
C6_ValidPolygonsOnly ==
    (Loaded /\ entry \in LoaderScripts) =>
        /\ \A i \in 1..Len(gdf.rows) :
              /\ gdf.rows[i].geometry.type \in { "Polygon", "MultiPolygon" }
              /\ gdf.rows[i].geometry.valid
        /\ Len(gdf.rows) = Len(PolygonalParsed)
        /\ error \in { NoError, "ValueError" }

C7_Order == << "depth", "DEPTH", "water_depth", "Depth", "flood_depth" >>

Normalized == pc \in { "features", "done" }

\* C8: with equal minimum and maximum every normalized depth is 1/2 and no
\* fraction has denominator 0; with min < max the normalized depth is
\* (d - min) / (max - min), within [0, 1], 0 at the minimum, 1 at the maximum.
C8_Normalization ==
    (Normalized /\ Len(depths) > 0) =>
        LET lo == MinOf(depths)
            hi == MaxOf(depths)
        IN  /\ Len(normalized) = Len(depths)
            /\ \A i \in 1..Len(depths) :
                  /\ normalized[i].den # 0
                  /\ lo = hi => 2 * normalized[i].num = normalized[i].den
                  /\ lo < hi =>
                        /\ normalized[i].num * (hi - lo)
                              = (depths[i] - lo) * normalized[i].den
                        /\ normalized[i].den > 0
                        /\ normalized[i].num >= 0
                        /\ normalized[i].num <= normalized[i].den
                        /\ depths[i] = lo => normalized[i].num = 0
                        /\ depths[i] = hi => normalized[i].num = normalized[i].den

C8_Witness ==
    /\ pc = "done"
    /\ Len(depths) >= 2
    /\ MinOf(depths) = MaxOf(depths)
    /\ \A i \in 1..Len(normalized) : normalized[i] = [num |-> 1, den |-> 2]

\* the coordinate sequence a mesh collection was built from
RingOf(m) == gdf.rows[m.owner].geometry.parts[m.part]

\* the rings of the features the loop has gone through, as <<feature, part>>
RingsDone ==
    UNION { { << k, p >> : p \in 1..Len(gdf.rows[k].geometry.parts) } :
              k \in 1..(idx - 1) }

MeshesOf(r, kind) ==
    { j \in 1..Len(meshes) :
         meshes[j].owner = r[1] /\ meshes[j].part = r[2] /\ meshes[j].kind = kind }

RECURSIVE FaceCount(_)
FaceCount(ms) == IF ms = << >> THEN 0 ELSE Len(Head(ms).faces) + FaceCount(Tail(ms))

RECURSIVE ExpectedFaces(_)
ExpectedFaces(rings) ==
    IF rings = {} THEN 0
    ELSE LET r == CHOOSE x \in rings : TRUE
         IN  1 + 1 + (Len(gdf.rows[r[1]].geometry.parts[r[2]]) - 1)
               + ExpectedFaces(rings \ { r })

\* C9: every rendered ring of n coordinates gives one top face at
\* z = base + 0.05 * depth of its record, one bottom face at z = 0 and n - 1
\* side quads, the i-th from coordinate i to coordinate i + 1 between the
\* two heights; the face count is the sum of 1 + 1 + (n - 1) over the rings.
C9_MeshPerRing ==
    Normalized =>
        /\ \A j \in 1..Len(meshes) : << meshes[j].owner, meshes[j].part >> \in RingsDone
        /\ \A r \in RingsDone :
              LET c == gdf.rows[r[1]].geometry.parts[r[2]]
                  n == Len(c)
                  d == depths[r[1]]
              IN  /\ \A kind \in { "top", "bottom", "sides" } :
                        Cardinality(MeshesOf(r, kind)) = 1
                  /\ \A j \in MeshesOf(r, "top") :
                        /\ Len(meshes[j].faces) = 1
                        /\ Len(meshes[j].faces[1]) = n
                        /\ \A i \in 1..n :
                              /\ meshes[j].faces[1][i][1] = c[i][1]
                              /\ meshes[j].faces[1][i][2] = c[i][2]
                              /\ 20 * meshes[j].faces[1][i][3] = 100 * d
                  /\ \A j \in MeshesOf(r, "bottom") :
                        /\ Len(meshes[j].faces) = 1
                        /\ Len(meshes[j].faces[1]) = n
                        /\ \A i \in 1..n :
                              meshes[j].faces[1][i] = << c[i][1], c[i][2], 0 >>
                  /\ \A j \in MeshesOf(r, "sides") :
                        /\ Len(meshes[j].faces) = n - 1
                        /\ \A i \in 1..(n - 1) :
                              /\ meshes[j].faces[i][1] = << c[i][1], c[i][2], 0 >>
                              /\ meshes[j].faces[i][2] = << c[i + 1][1], c[i + 1][2], 0 >>
                              /\ 20 * meshes[j].faces[i][3][3] = 100 * d
                              /\ 20 * meshes[j].faces[i][4][3] = 100 * d
                              /\ meshes[j].faces[i][3][1] = c[i + 1][1]
                              /\ meshes[j].faces[i][3][2] = c[i + 1][2]
                              /\ meshes[j].faces[i][4][1] = c[i][1]
                              /\ meshes[j].faces[i][4][2] = c[i][2]
        /\ FaceCount(meshes) = ExpectedFaces(RingsDone)

C9_Witness ==
    /\ pc = "done"
    /\ depth_source.kind = "random"
    /\ Len(gdf.rows) = 3
    /\ \A i \in 1..3 :
          gdf.rows[i].geometry.type = "Polygon" /\ Len(gdf.rows[i].geometry.parts[1]) = 4
    /\ depths[1] < depths[2]
    /\ Len(meshes) = 9
    /\ FaceCount(meshes) = 3 * (1 + 1 + 3)

SideMeshes == { j \in 1..Len(meshes) : meshes[j].kind = "sides" }

\* C10 as claimed: no side quad runs along the edge from a ring's last
\* vertex back to its first vertex, which leaves a gap in the walls.
C10_ClosingEdgeOmitted ==
    \A j \in SideMeshes :
        LET c == RingOf(meshes[j])
            n == Len(c)
        IN  ~ \E q \in 1..Len(meshes[j].faces) :
                 /\ meshes[j].faces[q][1] = << c[n - 1][1], c[n - 1][2], 0 >>
                 /\ meshes[j].faces[q][2] = << c[1][1], c[1][2], 0 >>

\* C10 as amended: the loop builds n - 1 quads and none for the wrap-around
\* pair (coordinate n, coordinate 1); the ring's coordinates repeat the
\* first vertex at the end, so every boundary edge of the n - 1 vertices,
\* the one from the last vertex back to the first included, has its quad:
\* the side walls have no gap.
C10_WallsClosed ==
    \A j \in SideMeshes :
        LET c == RingOf(meshes[j])
            n == Len(c)
            m == n - 1
        IN  /\ c[n] = c[1]
            /\ Len(meshes[j].faces) = n - 1
            /\ \A q \in 1..Len(meshes[j].faces) :
                  << meshes[j].faces[q][1][1], meshes[j].faces[q][1][2] >>
                     # << meshes[j].faces[q][2][1], meshes[j].faces[q][2][2] >>
            /\ \A k \in 1..m :
                  \E q \in 1..Len(meshes[j].faces) :
                     /\ meshes[j].faces[q][1] = << c[k][1], c[k][2], 0 >>
                     /\ meshes[j].faces[q][2] = << c[(k % m) + 1][1], c[(k % m) + 1][2], 0 >>

C10_Witness ==
    /\ pc = "done"
    /\ \E j \in SideMeshes :
          /\ Len(RingOf(meshes[j])) = 5
          /\ Len(meshes[j].faces) = 4

====
